---- MODULE Spec2Model ----
(***************************************************************************)
(* Model of src/lib/doge-api.js: the DogeApi wallet class.                 *)
(*                                                                         *)
(* State: one DogeApi instance (its _keyPair, _address and _clients        *)
(* fields), the passphrase it was constructed from, and the record of the  *)
(* last completed method call: its arguments, what the indexing service    *)
(* held for the wallet at that time, what the call returned or threw, the  *)
(* requests it issued and the calls it made on the bitcoinjs-lib           *)
(* TransactionBuilder.                                                     *)
(*                                                                         *)
(* Numbers.  JavaScript numbers are IEEE-754 doubles.  Amounts in coins    *)
(* are dyadic rationals num/den (den a power of two), which doubles hold   *)
(* exactly; amounts in smallest units are integers.  The target of         *)
(* _buildTransaction reaches 10^16 and more, beyond the integers TLC       *)
(* computes with, so an integer v is held as two limbs hi * 10^8 + lo      *)
(* with 0 <= lo < 10^8.  Every value the model computes is a multiple of   *)
(* 16 or below 2^53 in magnitude, so the double arithmetic of the source   *)
(* is exact on it.                                                         *)
(***************************************************************************)
EXTENDS Integers, Sequences, FiniteSets, TLC

VARIABLES self, passphrase, last

vars == <<self, passphrase, last>>

(***************************************************************************)
(* Program constants.                                                      *)
(***************************************************************************)
MULTIPLIER == 100000000

TX_FEE == 1

(***************************************************************************)
(* Bounds of the model.                                                    *)
(***************************************************************************)
MaxUnspents == 3

(***************************************************************************)
(* Two-limb integers.                                                      *)
(***************************************************************************)
Norm(h, l) == [hi |-> h + (l \div MULTIPLIER), lo |-> l % MULTIPLIER]

BigOf(n) == Norm(0, n)

Zero == BigOf(0)

BigAdd(a, b) == Norm(a.hi + b.hi, a.lo + b.lo)

BigSub(a, b) == Norm(a.hi - b.hi, a.lo - b.lo)

BigLess(a, b) == a.hi < b.hi \/ (a.hi = b.hi /\ a.lo < b.lo)

BigLeq(a, b) == ~BigLess(b, a)

\* x * MULTIPLIER
TimesMultiplier(x) == [hi |-> x.hi * MULTIPLIER + x.lo, lo |-> 0]

(***************************************************************************)
(* Coin amounts (whole-coin units, as the API and the callers give them)   *)
(* and Math.floor(Number(amount) * MULTIPLIER).                            *)
(***************************************************************************)
Coin(n, d) == [num |-> n, den |-> d]

ToSmallest(c) ==
    [hi |-> c.num \div c.den, lo |-> ((c.num % c.den) * MULTIPLIER) \div c.den]

(***************************************************************************)
(* Key material: bitcoin.crypto.sha256, ECPair.fromPrivateKey and          *)
(* payments.p2pkh are injective constructors here.                         *)
(***************************************************************************)
Sha256(x) == <<"sha256", x>>

ECPairFromPrivateKey(d) == [privateKey |-> d, publicKey |-> <<"pub", d>>]

P2pkhAddress(pubkey) == <<"p2pkh", pubkey>>

\* the default value of createTransaction's address parameter, ''
EmptyAddress == <<"", <<>>>>

Constructor(p) ==
    LET pwHash == Sha256(p)
        keyPair == ECPairFromPrivateKey(pwHash)
    IN  [_keyPair  |-> keyPair,
         _address  |-> P2pkhAddress(keyPair.publicKey),
         _clients  |-> [k \in {} |-> "undefined"]]

\* get address ()
Address(this) == this._address

(***************************************************************************)
(* JavaScript objects as functions from property names to values.         *)
(***************************************************************************)
Undefined == "undefined"

Lookup(obj, key) == IF key \in DOMAIN obj THEN obj[key] ELSE Undefined

Truthy(v) == v # Undefined

\* The endpoints getEndpointUrl(Cryptos.DOGE) picks from.
Urls == {"https://dogenode1", "https://dogenode2"}

\* The properties of an axios instance.
AxiosProps == {"defaults", "get", "post", "request", "interceptors"}

\* axios.create({ baseURL: url })
AxiosCreate(url) == [p \in AxiosProps |-> IF p = "defaults" THEN url ELSE "function"]

(***************************************************************************)
(* The client cache.                                                       *)
(***************************************************************************)
\* _getClient storing the identity of the endpoint over the wallet's own
GetClientRekey(this, url) ==
    LET keyPair == ECPairFromPrivateKey(Sha256(url))
        after == [this EXCEPT !._clients = AxiosCreate(url),
                              !._keyPair = keyPair,
                              !._address = P2pkhAddress(keyPair.publicKey)]
    IN  [self |-> after, client |-> Lookup(after._clients, url), created |-> 1]

\* _getClient () with url the endpoint getEndpointUrl(Cryptos.DOGE) returned:
\* the new client is assigned to this._clients itself, not to this._clients[url]
GetClient(this, url) ==
    LET absent == ~Truthy(Lookup(this._clients, url))
        after == IF absent THEN [this EXCEPT !._clients = AxiosCreate(url)] ELSE this
    IN  [self |-> after,
         client |-> Lookup(after._clients, url),
         created |-> IF absent THEN 1 ELSE 0]

(***************************************************************************)
(* bitcoinjs-lib's TransactionBuilder, as far as _buildTransaction drives  *)
(* it.  A builder is the inputs and outputs added so far, the log of the   *)
(* calls made on it, and the exception that ended the run ("" for none):   *)
(* once a call has thrown, no later call of the run happens.               *)
(***************************************************************************)
NoKey == <<>>

Entry(fn, txid, idx, addr, value, key, ok) ==
    [fn |-> fn, txid |-> txid, idx |-> idx, addr |-> addr, value |-> value,
     key |-> key, ok |-> ok]

\* new bitcoin.TransactionBuilder(network); txb.setVersion(1)
NewBuilder == [version |-> 1, ins |-> <<>>, outs |-> <<>>, log |-> <<>>, error |-> ""]

\* types.Satoshi: an integer in 0 .. 21 * 10^14
SatoshiMax == [hi |-> 21000000, lo |-> 0]

IsSatoshi(v) == BigLeq(Zero, v) /\ BigLeq(v, SatoshiMax)

\* address.toOutputScript succeeds on a base58check address of the network
ValidAddress(addr) == addr[1] = "p2pkh"

\* txb.addInput(txid, vout)
TxbAddInput(txb, txid, vout) ==
    IF txb.error # "" THEN txb
    ELSE IF \E i \in 1..Len(txb.ins) : txb.ins[i].txid = txid /\ txb.ins[i].vout = vout
    THEN [txb EXCEPT !.log = Append(@, Entry("addInput", txid, vout, EmptyAddress, Zero, NoKey, FALSE)),
                     !.error = "Duplicate TxOut"]
    ELSE [txb EXCEPT !.ins = Append(@, [txid |-> txid, vout |-> vout, sig |-> NoKey]),
                     !.log = Append(@, Entry("addInput", txid, vout, EmptyAddress, Zero, NoKey, TRUE))]

\* txb.addOutput(address, value)
TxbAddOutput(txb, addr, value) ==
    IF txb.error # "" THEN txb
    ELSE IF ~ValidAddress(addr)
    THEN [txb EXCEPT !.log = Append(@, Entry("addOutput", 0, Len(txb.outs), addr, value, NoKey, FALSE)),
                     !.error = "InvalidAddress"]
    ELSE IF ~IsSatoshi(value)
    THEN [txb EXCEPT !.log = Append(@, Entry("addOutput", 0, Len(txb.outs), addr, value, NoKey, FALSE)),
                     !.error = "TypeError: Satoshi"]
    ELSE [txb EXCEPT !.outs = Append(@, [addr |-> addr, value |-> value]),
                     !.log = Append(@, Entry("addOutput", 0, Len(txb.outs), addr, value, NoKey, TRUE))]

\* txb.sign(vin, keyPair)
TxbSign(txb, vin, keyPair) ==
    IF txb.error # "" THEN txb
    ELSE IF vin < 0 \/ vin >= Len(txb.ins)
    THEN [txb EXCEPT !.log = Append(@, Entry("sign", 0, vin, EmptyAddress, Zero, keyPair.publicKey, FALSE)),
                     !.error = "No input at index"]
    ELSE IF txb.ins[vin + 1].sig # NoKey
    THEN [txb EXCEPT !.log = Append(@, Entry("sign", 0, vin, EmptyAddress, Zero, keyPair.publicKey, FALSE)),
                     !.error = "Signature already exists"]
    ELSE [txb EXCEPT !.ins[vin + 1].sig = keyPair.publicKey,
                     !.log = Append(@, Entry("sign", 0, vin, EmptyAddress, Zero, keyPair.publicKey, TRUE))]

\* txb.build()
TxbBuild(txb) ==
    IF txb.error # "" THEN txb
    ELSE IF Len(txb.ins) = 0
    THEN [txb EXCEPT !.log = Append(@, Entry("build", 0, 0, EmptyAddress, Zero, NoKey, FALSE)),
                     !.error = "Transaction has no inputs"]
    ELSE IF Len(txb.outs) = 0
    THEN [txb EXCEPT !.log = Append(@, Entry("build", 0, 0, EmptyAddress, Zero, NoKey, FALSE)),
                     !.error = "Transaction has no outputs"]
    ELSE IF \E i \in 1..Len(txb.ins) : txb.ins[i].sig = NoKey
    THEN [txb EXCEPT !.log = Append(@, Entry("build", 0, 0, EmptyAddress, Zero, NoKey, FALSE)),
                     !.error = "Transaction is not complete"]
    ELSE [txb EXCEPT !.log = Append(@, Entry("build", 0, 0, EmptyAddress, Zero, NoKey, TRUE))]

\* the serialized transaction of a builder whose build() succeeded
NoTx == [version |-> 0, vin |-> <<>>, vout |-> <<>>, locktime |-> 0]

ToHex(txb) == [version |-> txb.version, vin |-> txb.ins, vout |-> txb.outs, locktime |-> 0]

(***************************************************************************)
(* _buildTransaction (address, amount, unspents).                          *)
(***************************************************************************)
\* the forEach body adding an input also when the total equals the target
ForEachBodyLeq(acc, tx, target) ==
    LET amount == ToSmallest(tx.amount) IN
    IF acc.txb.error # "" THEN acc
    ELSE IF BigLeq(acc.transferAmount, target)
    THEN [txb |-> TxbAddInput(acc.txb, tx.txid, acc.inputs),
          inputs |-> acc.inputs + 1,
          transferAmount |-> BigAdd(acc.transferAmount, amount)]
    ELSE acc

\* the body of unspents.forEach(tx => ...), on the accumulated
\* (txb, inputs, transferAmount)
ForEachBody(acc, tx, target) ==
    LET amount == ToSmallest(tx.amount) IN
    IF acc.txb.error # "" THEN acc
    ELSE IF BigLess(acc.transferAmount, target)
    THEN [txb |-> TxbAddInput(acc.txb, tx.txid, acc.inputs),
          inputs |-> acc.inputs + 1,
          transferAmount |-> BigAdd(acc.transferAmount, amount)]
    ELSE acc

RECURSIVE ForEach(_, _, _, _)
ForEach(unspents, i, acc, target) ==
    IF i > Len(unspents) THEN acc
    ELSE ForEach(unspents, i + 1, ForEachBody(acc, unspents[i], target), target)

\* the sign loop running one index too far
SignRangeInclusive(inputs) == [k \in 1..(inputs + 1) |-> k - 1]

\* for (let i = 0; i < inputs; ++i): the indices signed, in order
SignRange(inputs) == [k \in 1..inputs |-> k - 1]

RECURSIVE SignAll(_, _, _, _)
SignAll(txb, idxs, k, keyPair) ==
    IF k > Len(idxs) THEN txb
    ELSE SignAll(TxbSign(txb, idxs[k], keyPair), idxs, k + 1, keyPair)

\* const target = (amount + TX_FEE) * MULTIPLIER
Target(amount) == TimesMultiplier(BigAdd(amount, BigOf(TX_FEE)))

\* the change output carrying the whole selected total
ChangeWhole(transferAmount, target) == transferAmount

\* transferAmount - target, the value of the second output
Change(transferAmount, target) == BigSub(transferAmount, target)

NoBuild ==
    [ran |-> FALSE, amount |-> Zero, unspents |-> <<>>, target |-> Zero,
     transferAmount |-> Zero, inputs |-> 0, txb |-> NewBuilder, hex |-> NoTx]

BuildTransaction(this, address, amount, unspents) ==
    LET target == Target(amount)
        sel == ForEach(unspents, 1,
                       [txb |-> NewBuilder, inputs |-> 0, transferAmount |-> Zero],
                       target)
        o1 == TxbAddOutput(sel.txb, address, amount)
        o2 == TxbAddOutput(o1, this._address, Change(sel.transferAmount, target))
        sg == SignAll(o2, SignRange(sel.inputs), 1, this._keyPair)
        b  == TxbBuild(sg)
    IN  [ran |-> TRUE, amount |-> amount, unspents |-> unspents, target |-> target,
         transferAmount |-> sel.transferAmount, inputs |-> sel.inputs, txb |-> b,
         hex |-> IF b.error = "" THEN ToHex(b) ELSE NoTx]

(***************************************************************************)
(* The record of a method call.                                            *)
(***************************************************************************)
NoTxid == <<"none", <<>>>>

\* sha256(sha256(hex)), byte-reversed
TxidOf(hex) == <<"reversed", Sha256(Sha256(hex))>>

NoCall ==
    [op |-> "none", address |-> EmptyAddress, coins |-> Coin(0, 1), amount |-> Zero,
     url |-> "", served |-> <<>>, answered |-> FALSE, rawtx |-> NoTx,
     outcome |-> "none", error |-> "", lookups |-> 0, created |-> 0,
     gets |-> 0, posts |-> 0, client |-> Undefined,
     build |-> NoBuild, hex |-> NoTx, txid |-> NoTxid, data |-> Undefined]

(***************************************************************************)
(* _get and _post: the client lookup, then the request on the client.      *)
(* With no client, `undefined.get` throws a TypeError before any request.  *)
(***************************************************************************)
Get(this, url) ==
    LET g == GetClient(this, url) IN
    [self |-> g.self, client |-> g.client, created |-> g.created, lookups |-> 1,
     threw |-> ~Truthy(g.client), sent |-> IF Truthy(g.client) THEN 1 ELSE 0]

Post(this, url) ==
    LET g == GetClient(this, url) IN
    [self |-> g.self, client |-> g.client, created |-> g.created, lookups |-> 1,
     threw |-> ~Truthy(g.client), sent |-> IF Truthy(g.client) THEN 1 ELSE 0]

(***************************************************************************)
(* The public methods.  url is the endpoint getEndpointUrl picks; netOk     *)
(* and resp.ok say whether the service answers a request issued to it,     *)
(* resp.data is the list of unspent outputs it answers with.               *)
(***************************************************************************)
\* getBalance ()
GetBalance(this, url, netOk) ==
    LET g == Get(this, url)
        base == [NoCall EXCEPT !.op = "getBalance", !.url = url, !.answered = netOk,
                               !.lookups = g.lookups,
                               !.created = g.created, !.client = g.client,
                               !.gets = g.sent]
    IN  [self |-> g.self,
         call |-> IF g.threw
                  THEN [base EXCEPT !.outcome = "threw", !.error = "TypeError"]
                  ELSE IF ~netOk
                  THEN [base EXCEPT !.outcome = "rejected", !.error = "TransportFailure"]
                  ELSE [base EXCEPT !.outcome = "resolved", !.data = "confirmed_balance"]]

\* createTransaction (address = '', amount = 0)
CreateTransaction(this, address, coins, url, resp) ==
    LET amount == ToSmallest(coins)
        g == Get(this, url)
        base == [NoCall EXCEPT !.op = "createTransaction", !.address = address,
                               !.coins = coins, !.amount = amount, !.url = url,
                               !.served = resp.data, !.answered = resp.ok,
                               !.lookups = g.lookups, !.created = g.created,
                               !.client = g.client, !.gets = g.sent]
        b == BuildTransaction(g.self, address, amount, resp.data)
    IN  [self |-> g.self,
         call |-> IF g.threw
                  THEN [base EXCEPT !.outcome = "threw", !.error = "TypeError"]
                  ELSE IF ~resp.ok
                  THEN [base EXCEPT !.outcome = "rejected", !.error = "TransportFailure"]
                  ELSE IF b.txb.error # ""
                  THEN [base EXCEPT !.outcome = "rejected", !.error = b.txb.error,
                                    !.build = b]
                  ELSE [base EXCEPT !.outcome = "resolved", !.build = b,
                                    !.hex = b.hex, !.txid = TxidOf(b.hex)]]

\* sendTransaction (txHex)
SendTransaction(this, txHex, url, netOk) ==
    LET g == Post(this, url)
        base == [NoCall EXCEPT !.op = "sendTransaction", !.rawtx = txHex,
                               !.url = url, !.answered = netOk,
                               !.lookups = g.lookups, !.created = g.created,
                               !.client = g.client, !.posts = g.sent]
    IN  [self |-> g.self,
         call |-> IF g.threw
                  THEN [base EXCEPT !.outcome = "threw", !.error = "TypeError"]
                  ELSE IF ~netOk
                  THEN [base EXCEPT !.outcome = "rejected", !.error = "TransportFailure"]
                  ELSE [base EXCEPT !.outcome = "resolved", !.data = "sent"]]

(***************************************************************************)
(* Inputs.                                                                 *)
(***************************************************************************)
Passphrases == {"test"}

\* '' and the address of another wallet
Addresses == {EmptyAddress, Constructor("bob")._address}

\* amounts of unspent outputs, in coins: 0.5 and 5
UnspentAmounts == {Coin(1, 2), Coin(5, 1)}

\* amounts to send, in coins: 0, 1/512 (195312.5 smallest units), 1 and 2
SendAmounts == {Coin(0, 1), Coin(1, 512), Coin(1, 1), Coin(2, 1)}

\* amount arguments of _buildTransaction: what createTransaction passes for
\* a send amount, and one and two smallest units
BuildAmounts == {ToSmallest(c) : c \in SendAmounts} \cup {BigOf(1), BigOf(2)}

UnspentLists ==
    UNION {{[i \in 1..n |-> [txid |-> i, amount |-> f[i]]] : f \in [1..n -> UnspentAmounts]} :
           n \in 0..MaxUnspents}

\* what the service does with a request for the unspent outputs
Responses ==
    {[ok |-> FALSE, data |-> <<>>]} \cup {[ok |-> TRUE, data |-> l] : l \in UnspentLists}

(***************************************************************************)
(* The state machine.                                                      *)
(***************************************************************************)
Init ==
    /\ passphrase \in Passphrases
    /\ self = Constructor(passphrase)
    /\ last = NoCall

GetClientCall ==
    \E url \in Urls :
        LET g == GetClient(self, url) IN
        /\ self' = g.self
        /\ last' = [NoCall EXCEPT !.op = "_getClient", !.url = url,
                                  !.outcome = "returned",
                                  !.lookups = 1, !.created = g.created,
                                  !.client = g.client]
        /\ UNCHANGED passphrase

GetBalanceCall ==
    \E url \in Urls, netOk \in BOOLEAN :
        LET r == GetBalance(self, url, netOk) IN
        /\ self' = r.self
        /\ last' = r.call
        /\ UNCHANGED passphrase

CreateTransactionCall ==
    \E address \in Addresses, coins \in SendAmounts, url \in Urls, resp \in Responses :
        LET r == CreateTransaction(self, address, coins, url, resp) IN
        /\ self' = r.self
        /\ last' = r.call
        /\ UNCHANGED passphrase

SendTransactionCall ==
    \E txHex \in {NoTx, last.hex, last.build.hex}, url \in Urls, netOk \in BOOLEAN :
        LET r == SendTransaction(self, txHex, url, netOk) IN
        /\ self' = r.self
        /\ last' = r.call
        /\ UNCHANGED passphrase

BuildTransactionCall ==
    \E address \in Addresses, amount \in BuildAmounts, unspents \in UnspentLists :
        LET b == BuildTransaction(self, address, amount, unspents) IN
        /\ last' = [NoCall EXCEPT !.op = "_buildTransaction", !.address = address,
                                  !.amount = amount, !.build = b,
                                  !.outcome = IF b.txb.error = "" THEN "returned" ELSE "threw",
                                  !.error = b.txb.error, !.hex = b.hex]
        /\ UNCHANGED <<self, passphrase>>

Next ==
    \/ GetClientCall
    \/ GetBalanceCall
    \/ CreateTransactionCall
    \/ SendTransactionCall
    \/ BuildTransactionCall

Spec == Init /\ [][Next]_vars

(***************************************************************************)
(* Quantities the claims are stated with, computed from the arguments and  *)
(* the calls of a build run, not from the run's own accumulators.          *)
(***************************************************************************)
RECURSIVE PrefixSum(_, _)
PrefixSum(unspents, n) ==
    IF n = 0 THEN Zero
    ELSE BigAdd(PrefixSum(unspents, n - 1), ToSmallest(unspents[n].amount))

\* send amount + flat fee of one coin, in smallest units
AmountPlusFee(amount) == BigAdd(amount, [hi |-> TX_FEE, lo |-> 0])

CallsTo(log, fn) == SelectSeq(log, LAMBDA e : e.fn = fn)

Returned(b) == b.ran /\ b.txb.error = ""

\* C1: whenever the unspent outputs handed to a build sum to less than send
\* amount + fee, the build reports InsufficientFunds, produces no transaction
\* and adds no output of negative value.
C1_InsufficientFundsReported ==
    LET b == last.build IN
    (/\ b.ran
     /\ ValidAddress(last.address)
     /\ BigLess(PrefixSum(b.unspents, Len(b.unspents)), AmountPlusFee(b.amount)))
    => /\ last.error = "InsufficientFunds"
       /\ b.hex = NoTx
       /\ \A i \in 1..Len(b.txb.outs) : BigLeq(Zero, b.txb.outs[i].value)

\* C3: a build run on the amount createTransaction passes for a send of a
\* coins (a in smallest units) uses the target a + 100000000 smallest units.
C3_TargetIsAmountPlusFee ==
    (/\ last.build.ran
     /\ \E c \in SendAmounts : last.build.amount = ToSmallest(c))
    => last.build.target = AmountPlusFee(last.build.amount)

\* the total of the unspent outputs the inputs vin refer to
RECURSIVE InputTotal(_, _, _)
InputTotal(vin, unspents, k) ==
    IF k = 0 THEN Zero
    ELSE BigAdd(InputTotal(vin, unspents, k - 1),
                ToSmallest(unspents[vin[k].txid].amount))

\* C2 as stated: in every build that returns a transaction, with T the total
\* of the selected inputs and G the target, the two outputs sum to T, and the
\* change is T - G and not negative.
C2_OutputsSumToSelected ==
    LET b == last.build
        T == InputTotal(b.hex.vin, b.unspents, Len(b.hex.vin))
    IN  Returned(b) =>
            /\ Len(b.hex.vout) = 2
            /\ BigAdd(b.hex.vout[1].value, b.hex.vout[2].value) = T
            /\ b.hex.vout[2].value = BigSub(T, b.target)
            /\ BigLeq(Zero, b.hex.vout[2].value)

\* C2, amended: in every build that returns a transaction, with T the total of
\* the selected inputs and G the target the build computed, the first output
\* is the send amount to the destination, the second is the change T - G >= 0
\* to the own address, and the outputs sum to T - (G - send amount): the fee
\* part of the target is left out of the outputs.
C2_Conservation ==
    LET b == last.build
        T == InputTotal(b.hex.vin, b.unspents, Len(b.hex.vin))
    IN  Returned(b) =>
            /\ Len(b.hex.vout) = 2
            /\ b.hex.vout[1] = [addr |-> last.address, value |-> b.amount]
            /\ b.hex.vout[2] = [addr |-> Address(self), value |-> BigSub(T, b.target)]
            /\ BigLeq(Zero, b.hex.vout[2].value)
            /\ BigAdd(BigAdd(b.hex.vout[1].value, b.hex.vout[2].value),
                      BigSub(b.target, b.amount)) = T

C2_Witness ==
    /\ Returned(last.build)
    /\ Len(last.build.hex.vin) = 2
    /\ BigLess(Zero, last.build.hex.vout[2].value)

\* C4: the inputs a build adds are the shortest prefix of the unspent outputs,
\* in the caller's order, whose total reaches the target (the whole list when
\* none does): input k is output k of the list with ordinal k - 1, the total
\* of the prefix without its last output is below the target, and no output
\* after the prefix is added.
C4_ShortestPrefix ==
    LET b == last.build
        added == CallsTo(b.txb.log, "addInput")
        n == Len(added)
    IN  b.ran =>
            /\ n <= Len(b.unspents)
            /\ n = b.inputs
            /\ \A k \in 1..n : /\ added[k].ok
                               /\ added[k].txid = b.unspents[k].txid
                               /\ added[k].idx = k - 1
            /\ \A k \in 0..(n - 1) : BigLess(PrefixSum(b.unspents, k), b.target)
            /\ n = Len(b.unspents) \/ BigLeq(b.target, PrefixSum(b.unspents, n))

C4_Witness ==
    /\ last.build.ran
    /\ last.build.inputs = 2
    /\ Len(last.build.unspents) = 3
    /\ PrefixSum(last.build.unspents, 2) = last.build.target

\* C5: createTransaction for 1 coin, answered with the single unspent output
\* of 5 coins, resolves with a transaction of one input and the two outputs
\* 100000000 to the destination and 400000000 to the own address.
C5_EndToEnd ==
    (/\ last.op = "createTransaction"
     /\ ValidAddress(last.address)
     /\ last.coins = Coin(1, 1)
     /\ last.answered
     /\ last.served = <<[txid |-> 1, amount |-> Coin(5, 1)]>>)
    => /\ last.outcome = "resolved"
       /\ Len(last.hex.vin) = 1
       /\ last.hex.vout = <<[addr |-> last.address, value |-> BigOf(100000000)],
                            [addr |-> Address(self), value |-> BigOf(400000000)]>>

\* C6: in every reachable state the key pair and the address are the ones the
\* constructor derived from the passphrase.
C6_IdentityStable ==
    /\ self._keyPair = Constructor(passphrase)._keyPair
    /\ Address(self) = Constructor(passphrase)._address

C6_Witness ==
    /\ last.op = "createTransaction"
    /\ last.outcome = "threw"
    /\ self._clients # Constructor(passphrase)._clients

\* the position of a builder call in Empty -> InputsAdded -> OutputsAdded ->
\* Signed -> Serialized
Phase(fn) ==
    CASE fn = "addInput" -> 1
      [] fn = "addOutput" -> 2
      [] fn = "sign" -> 3
      [] fn = "build" -> 4

\* C7: in every build run the calls on the builder come in the order
\* addInput*, addOutput, addOutput, sign*, build; every sign call is for an
\* index of an added input, with the wallet's key pair, after both outputs were
\* added, and no index is signed twice; build is called last, once every added
\* input has been signed.
C7_BuilderOrder ==
    LET log == last.build.txb.log
        nIn == Len(CallsTo(log, "addInput"))
        outsBefore(i) == Cardinality({j \in 1..(i - 1) : log[j].fn = "addOutput" /\ log[j].ok})
        signsOf(v) == {j \in 1..Len(log) : log[j].fn = "sign" /\ log[j].idx = v}
    IN  last.build.ran =>
            /\ \A i, j \in 1..Len(log) : i < j => Phase(log[i].fn) <= Phase(log[j].fn)
            /\ Len(CallsTo(log, "addOutput")) <= 2
            /\ \A i \in 1..Len(log) :
                   log[i].fn = "sign" =>
                       /\ log[i].ok
                       /\ log[i].idx \in 0..(nIn - 1)
                       /\ log[i].key = self._keyPair.publicKey
                       /\ outsBefore(i) = 2
                       /\ signsOf(log[i].idx) = {i}
            /\ \A i \in 1..Len(log) :
                   log[i].fn = "build" =>
                       /\ i = Len(log)
                       /\ outsBefore(i) = 2
                       /\ \A v \in 0..(nIn - 1) : Cardinality(signsOf(v)) = 1

C7_Witness ==
    LET log == last.build.txb.log IN
    /\ last.build.ran
    /\ Len(log) = 7
    /\ log[7].fn = "build"
    /\ log[7].ok
    /\ last.build.inputs = 2

\* C8: every createTransaction call issues exactly one GET request and no POST
\* request, and every sendTransaction call exactly one POST request.
C8_OneFetchPerCreate ==
    /\ last.op = "createTransaction" => last.gets = 1 /\ last.posts = 0
    /\ last.op = "sendTransaction" => last.posts = 1 /\ last.gets = 0

C10_InsertIfAbsent ==
    /\ DOMAIN self._clients \subseteq Urls
    /\ last.op = "_getClient" =>
           /\ Truthy(last.client)
           /\ last.url \in DOMAIN self._clients
           /\ last.client = self._clients[last.url]

====
